---- MODULE Spec2Model ----
(***************************************************************************)
(* Sunrise alarm for Tuya bulbs: the scheduling loop of esp32/main.py, the *)
(* ramp of esp32/main.py and sunrise.py, the TuyaBulb session of           *)
(* esp32/tuya.py and the sunrise-time fetch of both programs.              *)
(*                                                                         *)
(* Three specifications share the variables:                               *)
(*   Spec       main() of esp32/main.py: the polling loop, one step per    *)
(*              loop iteration, with the ramps it starts;                  *)
(*   RampSpec   run_sunrise_ramp on one bulb, one step per socket          *)
(*              operation, sleep or call;                                  *)
(*   FetchSpec  get_sunrise_time of both programs and the computation of   *)
(*              the ramp start, over bounded sets of inputs.               *)
(* Time is counted in whole seconds.  Floating point values of the source  *)
(* (the percent of a tick) are kept as exact fractions.                    *)
(***************************************************************************)
EXTENDS Integers, Sequences, FiniteSets, TLC

VARIABLES
    \* ---- configuration (esp32/config.py, config.json)
    config,                 \* record of the settings main() reads
    \* ---- main() of esp32/main.py
    pc,                     \* position of the scheduling loop
    rtc,                    \* the RTC, seconds (UTC) since day 0 00:00:00 UTC
    now,                    \* <<hour, minute, second>> read by the last poll
    sunrise_time,           \* cached <<h, m, s>> or None
    ramp_triggered_today,
    last_hour,
    ramp_start_secs,
    bulb_idx,               \* position of "for name, bulb in bulbs"
    hist,                   \* observations of the loop (history, not program state)
    \* ---- run_sunrise_ramp and TuyaBulb
    ramp,                   \* locals of run_sunrise_ramp and its position
    bulb,                   \* fields of the TuyaBulb (or the tinytuya device)
    clock,                  \* time.time() as run_sunrise_ramp sees it
    obs,                    \* observations of the ramp (history, not program state)
    \* ---- get_sunrise_time
    fetch,                  \* one call of get_sunrise_time and its result
    \* ---- pure functions (interpolate_curve, _pad, _crc32, ...)
    pure                    \* one call of a pure function: input and result

vars == <<config, pc, rtc, now, sunrise_time, ramp_triggered_today, last_hour,
          ramp_start_secs, bulb_idx, hist, ramp, bulb, clock, obs, fetch,
          pure>>

mainVars == <<pc, rtc, now, sunrise_time, ramp_triggered_today, last_hour,
              ramp_start_secs, bulb_idx, hist>>
rampVars == <<ramp, bulb, clock, obs>>

(***************************************************************************)
(* Bounds of the model.                                                    *)
(***************************************************************************)
MaxDays == 2          \* the scheduling loop is followed for this many local days
NumBulbs == 2         \* len(config.DEVICES)

(***************************************************************************)
(* Program constants.                                                      *)
(***************************************************************************)
DaySecs == 86400      \* seconds of a day (the wrap of ramp_start_secs)
WindowSecs == 30      \* abs(now_secs - ramp_start_secs) < 30
PollSecs == 10        \* time.sleep(10)
NoonHour == 12        \* if now[0] >= 12
RefetchHour == 3      \* now[0] == 3 and now[1] == 0 and last_hour != 3
FallbackHour == 7     \* return (7, 0, 0)

None == <<>>

Abs(x) == IF x < 0 THEN -x ELSE x
Max(a, b) == IF a >= b THEN a ELSE b
Min(a, b) == IF a <= b THEN a ELSE b

(***************************************************************************)
(* esp32/main.py: time helpers.                                            *)
(***************************************************************************)
time_to_seconds(h, m, s) == h * 3600 + m * 60 + s

\* The RTC holds UTC; only the hour is shifted, modulo 24.
get_current_time(r, cfg) ==
    LET tod == r % DaySecs
        h == tod \div 3600
        m == (tod % 3600) \div 60
        s == tod % 60
    IN <<(h + cfg.TIMEZONE_OFFSET) % 24, m, s>>

\* The local calendar day of an RTC value (an observation, not program state).
LocalDay(r, cfg) == (r + cfg.TIMEZONE_OFFSET * 3600) \div DaySecs

(***************************************************************************)
(* get_sunrise_time.  A fetch is one of                                    *)
(*   [kind |-> "raise"]            the request or the JSON decoding raises *)
(*   [kind |-> "bad_parse"]        status OK, the time string is malformed *)
(*   [kind |-> "not_ok"]           the service answers a status /= "OK"    *)
(*   [kind |-> "ok", utc |-> <<h, m, s>>]  status OK, sunrise in UTC       *)
(* The result of the ESP32 program is a tuple (hour, minute, second); the  *)
(* result of sunrise.py is a datetime, kept here as the same tuple of its  *)
(* local time of day, or None.                                             *)
(***************************************************************************)
Fallback == <<FallbackHour, 0, 0>>

\* esp32/main.py: hour += TIMEZONE_OFFSET, wrapped once in either direction.
LocalHour(hour, tz) ==
    LET h == hour + tz
    IN IF h < 0 THEN h + 24 ELSE IF h >= 24 THEN h - 24 ELSE h

get_sunrise_time(resp, cfg) ==
    IF resp.kind = "ok"
    THEN <<LocalHour(resp.utc[1], cfg.TIMEZONE_OFFSET), resp.utc[2], resp.utc[3]>>
    ELSE Fallback      \* exception caught, or status not OK: falls to the last return

\* sunrise.py: astimezone() is the exact conversion to local time.
py_get_sunrise_time(resp, cfg) ==
    CASE resp.kind = "ok" ->
            <<(resp.utc[1] + cfg.TIMEZONE_OFFSET) % 24, resp.utc[2], resp.utc[3]>>
      [] resp.kind \in {"raise", "bad_parse"} -> Fallback
      [] OTHER -> None  \* status not OK: the function ends with "return None"

\* esp32/main.py lines 199-202: the start of the ramp in sunrise mode.
SunriseRampStart(st, cfg) ==
    LET sunrise_secs == time_to_seconds(st[1], st[2], st[3])
        start == sunrise_secs + cfg.SUNRISE_OFFSET_MINUTES * 60
    IN IF start < 0 THEN start + DaySecs ELSE start

StaticRampStart(cfg) ==
    time_to_seconds(cfg.STATIC_START_HOUR, cfg.STATIC_START_MINUTE, 0)

(***************************************************************************)
(* interpolate_curve (esp32/main.py and sunrise.py, the same algorithm).   *)
(* A curve is a sequence of <<percent, brightness, color_temp>>; the       *)
(* percent asked for is the fraction num / den, den > 0.                   *)
(***************************************************************************)
\* config.example.py: SUNRISE_CURVE
SUNRISE_CURVE ==
    << <<0, 10, 0>>, <<15, 50, 50>>, <<30, 150, 150>>, <<50, 400, 300>>,
       <<70, 700, 450>>, <<85, 900, 550>>, <<100, 1000, 650>> >>

\* int(): truncation toward zero of the quotient n / d, d # 0.
Trunc(n, d) ==
    LET q == Abs(n) \div Abs(d)
    IN IF (n < 0) = (d < 0) THEN q ELSE -q

\* Mutant of FirstAtLeast: the first keyframe whose percent is > num / den.
FirstAbove(curve, num, den) ==
    LET hits == {k \in 1 .. Len(curve) : curve[k][1] * den > num}
    IN IF hits = {} THEN 0 ELSE CHOOSE k \in hits : \A j \in hits : k <= j

\* The index of the first keyframe whose percent is >= num / den, 0 if none.
FirstAtLeast(curve, num, den) ==
    LET hits == {k \in 1 .. Len(curve) : curve[k][1] * den >= num}
    IN IF hits = {} THEN 0 ELSE CHOOSE k \in hits : \A j \in hits : k <= j

\* Mutant of interpolate_curve: local_pct is measured from next_point.
interpolate_curve_reversed(curve, num, den) ==
    LET k == FirstAtLeast(curve, num, den)
        next_point == IF k = 0 THEN curve[Len(curve)] ELSE curve[k]
        prev_point == IF k = 0 THEN curve[1] ELSE curve[Max(1, k - 1)]
        range_pct == next_point[1] - prev_point[1]
        lnum == next_point[1] * den - num
        lden == den * range_pct
    IN IF prev_point[1] = next_point[1]
       THEN <<prev_point[2], prev_point[3]>>
       ELSE << Trunc(prev_point[2] * lden + (next_point[2] - prev_point[2]) * lnum, lden),
               Trunc(prev_point[3] * lden + (next_point[3] - prev_point[3]) * lnum, lden) >>

interpolate_curve(curve, num, den) ==
    LET k == FirstAtLeast(curve, num, den)
        next_point == IF k = 0 THEN curve[Len(curve)] ELSE curve[k]
        prev_point == IF k = 0 THEN curve[1] ELSE curve[Max(1, k - 1)]
        range_pct == next_point[1] - prev_point[1]
        \* local_pct = lnum / lden
        lnum == num - prev_point[1] * den
        lden == den * range_pct
    IN IF prev_point[1] = next_point[1]
       THEN <<prev_point[2], prev_point[3]>>
       ELSE << Trunc(prev_point[2] * lden + (next_point[2] - prev_point[2]) * lnum, lden),
               Trunc(prev_point[3] * lden + (next_point[3] - prev_point[3]) * lnum, lden) >>

(***************************************************************************)
(* TuyaBulb (esp32/tuya.py).  sock is "None", "connected", or              *)
(* "unconnected" (a socket object whose connect() raised).  opened counts  *)
(* the sockets created and not closed.                                     *)
(***************************************************************************)
\* Mutant of BulbConnect: a new connection restarts the sequence counter.
BulbConnectRestartsSeq(b, ok) ==
    [b EXCEPT !.opened = (IF b.sock # "None" THEN @ - 1 ELSE @) + 1,
              !.sock = IF ok THEN "connected" ELSE "unconnected",
              !.seq_num = 0]

\* connect(): close the old socket if any, create a new one, connect it.
\* self.sock is assigned before connect() can raise.  seq_num is untouched.
BulbConnect(b, ok) ==
    [b EXCEPT !.opened = (IF b.sock # "None" THEN @ - 1 ELSE @) + 1,
              !.sock = IF ok THEN "connected" ELSE "unconnected"]

\* close()
BulbClose(b) ==
    IF b.sock # "None" THEN [b EXCEPT !.opened = @ - 1, !.sock = "None"] ELSE b

\* _send_command line 58: self.seq_num += 1
NextSeq(b) == b.seq_num + 1

\* Mutant of WhiteDps: brightness is clamped to [0, 1000] like color_temp.
WhiteDpsNoFloor(brightness, color_temp) ==
    [b22 |-> Max(0, Min(1000, brightness)), b23 |-> Max(0, Min(1000, color_temp))]

\* set_white_mode lines 102-109: the data points of the command.
WhiteDps(brightness, color_temp) ==
    [b22 |-> Max(10, Min(1000, brightness)), b23 |-> Max(0, Min(1000, color_temp))]

\* line 78: the sequence field of the header, struct.pack('>I', seq_num).  The
\* field is 32 bits wide; the counter of a bulb stays far below 2^32 here.
FrameSeq(seq) == seq

\* lines 83-84: after sock.send(packet) the response is read.
AfterSend == "recv"

(***************************************************************************)
(* run_sunrise_ramp (esp32/main.py lines 107-143, sunrise.py 119-150).     *)
(* ramp.impl is "esp32" or "py"; ramp.site is the call site of the update  *)
(* under way ("init", "tick", "final"); ramp.pos the operation under way.  *)
(***************************************************************************)
MaxTicks == 3         \* duration_seconds ranges over 0 .. MaxTicks
MaxCost == 1          \* an I/O operation or call takes 0 .. MaxCost seconds
MaxRamps == 2         \* ramps run one after the other on the same bulb

Costs == 0 .. MaxCost

\* Mutant of TickPercent: the progress is measured at the end of the tick.
TickPercentAtEnd(i, duration) == <<100 * (i + 1), duration>>

\* line 118: percent = (i / duration_seconds) * 100, as a fraction.
TickPercent(i, duration) == <<100 * i, duration>>

\* Mutant of SleepTime: a fixed sleep of one second after every tick.
SleepTimeFixed(i, start, t) == 1

\* esp32 lines 134-135, sunrise.py lines 142-143: the time to sleep.
SleepTime(i, start, t) == (i + 1) - (t - start)
py_SleepTime(i, start, t) == (start + i + 1) - t

\* Mutant of AfterTickRaise: the loop has no except clause.
AfterTickRaisePropagates(impl) == "raised"

\* Mutant of AfterTickRaise: the except clause does not reconnect.
AfterTickRaiseNoReconnect(impl) == "pace"

\* Where a raise of the tick's update goes: the except clause of the loop
\* (esp32: lines 123-128, then a reconnect; sunrise.py: lines 138-139).
AfterTickRaise(impl) == IF impl = "esp32" THEN "reconnect" ELSE "pace"

\* The update call under way, with the values computed for it.
CallAt(site, i, duration) ==
    LET pct == CASE site = "init" -> <<0, 1>>
                 [] site = "tick" -> TickPercent(i, duration)
                 [] OTHER -> <<100, 1>>
        v == interpolate_curve(SUNRISE_CURVE, pct[1], pct[2])
    IN [site |-> site, pct |-> pct, brightness |-> v[1], color_temp |-> v[2]]

\* The loop head after tick i - 1 (or after the initial update when i = 0).
LoopHead(r, i) ==
    IF i < r.duration
    THEN [r EXCEPT !.i = i, !.site = "tick", !.pos = "send"]
    ELSE [r EXCEPT !.i = i, !.site = "final", !.pos = "send"]

\* What follows an update that returned (its result is not looked at).
AfterUpdate(r, t) ==
    CASE r.site = "init" -> LoopHead([r EXCEPT !.start = t], 0)
      [] r.site = "tick" -> [r EXCEPT !.pos = "pace"]
      [] OTHER -> [r EXCEPT !.pos = IF r.impl = "esp32" THEN "close" ELSE "returned"]

\* What follows an update that raised.
AfterRaise(r) ==
    IF r.site = "tick" THEN [r EXCEPT !.pos = AfterTickRaise(r.impl)]
    ELSE [r EXCEPT !.pos = "raised"]

\* What a tick has done so far: its set_white_mode attempts, its connects
\* and how its update ended ("none", "true", "false" or "raise").
TickStart == [sends |-> 0, connects |-> 0, result |-> "none"]

Attempt(t, r) == IF r.site = "tick" THEN [t EXCEPT !.sends = @ + 1] ELSE t

Outcome(t, r, res) == IF r.site = "tick" THEN [t EXCEPT !.result = res] ELSE t

Spend(o, r, c) ==
    [o EXCEPT !.loop_cost = IF r.site = "tick" THEN Min(@ + c, 1) ELSE @]

\* line 111: bulb.connect() before the first update; a raise leaves the ramp.
Connect ==
    /\ ramp.pos = "connect" /\ ramp.impl = "esp32"
    /\ \E ok \in BOOLEAN, c \in Costs :
         /\ bulb' = BulbConnect(bulb, ok)
         /\ clock' = clock + c
         /\ ramp' = IF ok THEN [ramp EXCEPT !.pos = "send"]
                    ELSE [ramp EXCEPT !.pos = "raised"]
         /\ obs' = [obs EXCEPT !.outstanding = 0]
    /\ UNCHANGED <<mainVars, config, fetch, pure>>

\* sunrise.py line 121: connect_bulb() builds the device object, no I/O.
PyConnectBulb ==
    /\ ramp.pos = "connect" /\ ramp.impl = "py"
    /\ ramp' = [ramp EXCEPT !.pos = "send"]
    /\ UNCHANGED <<bulb, clock, obs, mainVars, config, fetch, pure>>

\* set_white_mode up to sock.send (tuya.py lines 102-104, 58-83): the
\* sequence number is taken, the packet built and handed to the socket.
\* The send raises on a socket that is not connected, and may raise on a
\* connected one.
Send ==
    /\ ramp.pos = "send" /\ ramp.impl = "esp32"
    /\ \E ok \in (IF bulb.sock = "connected" THEN BOOLEAN ELSE {FALSE}), c \in Costs :
         LET call == CallAt(ramp.site, ramp.i, ramp.duration)
             frame == [seq |-> FrameSeq(NextSeq(bulb)),
                       dps |-> WhiteDps(call.brightness, call.color_temp)]
         IN /\ bulb' = [bulb EXCEPT !.seq_num = NextSeq(bulb)]
            /\ clock' = clock + c
            /\ obs' = [Spend(obs, ramp, c) EXCEPT
                          !.calls = Append(@, call),
                          !.frames = Append(@, frame),
                          !.overlap = @ \/ (obs.outstanding > 0),
                          !.outstanding = IF ok THEN @ + 1 ELSE @,
                          !.failed = @ \/ (~ok /\ ramp.site = "tick"),
                          !.tick = IF ok THEN Attempt(@, ramp)
                                   ELSE Outcome(Attempt(@, ramp), ramp, "raise")]
            /\ ramp' = IF ok THEN [ramp EXCEPT !.pos = AfterSend]
                       ELSE AfterRaise(ramp)
    /\ UNCHANGED <<mainVars, config, fetch, pure>>

\* tuya.py lines 84-90: the response is read (or the read raises) and the
\* return code looked at; set_white_mode returns True or False.
Recv ==
    /\ ramp.pos = "recv"
    /\ \E res \in {"raise", "true", "false"}, c \in Costs :
         /\ clock' = clock + c
         /\ obs' = [Spend(obs, ramp, c) EXCEPT
                       !.outstanding = 0,
                       !.failed = @ \/ (res = "raise" /\ ramp.site = "tick"),
                       !.tick = Outcome(@, ramp, res)]
         /\ ramp' = IF res = "raise" THEN AfterRaise(ramp)
                    ELSE AfterUpdate(ramp, clock')
    /\ UNCHANGED <<bulb, mainVars, config, fetch, pure>>

\* sunrise.py lines 100-116: set_bulb_white, one call of the tinytuya device.
PySetBulbWhite ==
    /\ ramp.pos = "send" /\ ramp.impl = "py"
    /\ \E ok \in BOOLEAN, c \in Costs :
         LET call == CallAt(ramp.site, ramp.i, ramp.duration)
         IN /\ clock' = clock + c
            /\ obs' = [Spend(obs, ramp, c) EXCEPT
                          !.calls = Append(@, call),
                          !.failed = @ \/ (~ok /\ ramp.site = "tick"),
                          !.tick = Outcome(Attempt(@, ramp), ramp,
                                           IF ok THEN "true" ELSE "raise")]
            /\ ramp' = IF ok THEN AfterUpdate(ramp, clock') ELSE AfterRaise(ramp)
    /\ UNCHANGED <<bulb, mainVars, config, fetch, pure>>

\* esp32 lines 125-128: one bulb.connect(); a raise is swallowed.
Reconnect ==
    /\ ramp.pos = "reconnect"
    /\ \E ok \in BOOLEAN, c \in Costs :
         /\ bulb' = BulbConnect(bulb, ok)
         /\ clock' = clock + c
         /\ obs' = [Spend(obs, ramp, c) EXCEPT !.outstanding = 0,
                                               !.reconnect_failed = @ \/ ~ok,
                                               !.tick.connects = @ + 1]
         /\ ramp' = [ramp EXCEPT !.pos = "pace"]
    /\ UNCHANGED <<mainVars, config, fetch, pure>>

\* esp32 lines 134-137, sunrise.py lines 142-145: sleep to the tick's
\* boundary, then the loop head.
Pace ==
    /\ ramp.pos = "pace"
    /\ LET sleep_time == IF ramp.impl = "esp32"
                         THEN SleepTime(ramp.i, ramp.start, clock)
                         ELSE py_SleepTime(ramp.i, ramp.start, clock)
           wake == IF sleep_time > 0 THEN clock + sleep_time ELSE clock
       IN /\ clock' = wake
          /\ ramp' = LoopHead(ramp, ramp.i + 1)
          /\ obs' = [obs EXCEPT !.left = [i |-> ramp.i, done |-> clock, at |-> wake],
                                !.tick = TickStart,
                                !.late = @ \/ (wake > ramp.start + ramp.i + 1),
                                !.loop_end = IF ramp.i + 1 = ramp.duration
                                             THEN wake ELSE @]
    /\ UNCHANGED <<bulb, mainVars, config, fetch, pure>>

\* esp32 line 141: bulb.close(), then the function returns.
Close ==
    /\ ramp.pos = "close"
    /\ bulb' = BulbClose(bulb)
    /\ ramp' = [ramp EXCEPT !.pos = "returned"]
    /\ UNCHANGED <<clock, obs, mainVars, config, fetch, pure>>

Impls == {"esp32", "py"}

RampStart(impl, d, n) ==
    [impl |-> impl, duration |-> d, site |-> "init", pos |-> "connect",
     i |-> 0, start |-> 0, n |-> n]

ObsStart(o) ==
    [calls |-> <<>>, frames |-> o.frames, outstanding |-> 0,
     overlap |-> o.overlap, failed |-> FALSE, reconnect_failed |-> FALSE,
     left |-> None, late |-> FALSE, loop_cost |-> 0, loop_end |-> -1,
     tick |-> TickStart]

\* main() calls run_sunrise_ramp again for the same bulb (the next day's
\* ramp, of the same configured duration): esp32/main.py line 215 on the
\* TuyaBulb built at line 175.
NextRamp ==
    /\ ramp.pos \in {"returned", "raised"}
    /\ ramp.n < MaxRamps
    /\ ramp.impl = "esp32"
    /\ ramp' = RampStart(ramp.impl, ramp.duration, ramp.n + 1)
    /\ obs' = ObsStart(obs)
    /\ clock' = 0
    /\ UNCHANGED <<bulb, mainVars, config, fetch, pure>>

(***************************************************************************)
(* main() of esp32/main.py: the scheduling loop.                           *)
(***************************************************************************)
IsStatic(cfg) == cfg.MODE = "static"

\* line 195: the condition under which the loop fetches the sunrise time.
Refetch(st, n, lh) ==
    st = None \/ (n[1] = RefetchHour /\ n[2] = 0 /\ lh # RefetchHour)

Fetching(cfg, st, n, lh) == ~IsStatic(cfg) /\ Refetch(st, n, lh)

\* line 207: "not ramp_triggered_today and abs(now_secs - ramp_start_secs) < 30"
InWindow(n, start) == Abs(time_to_seconds(n[1], n[2], n[3]) - start) < WindowSecs

Trigger(flag, n, start) == ~flag /\ InWindow(n, start)

\* Mutant of NoonReset: the reset after noon is left out.
NoonResetMissing(flag, n) == flag

\* lines 220-221: "if now[0] >= 12: ramp_triggered_today = False", with the
\* now read at the top of the iteration.
NoonReset(flag, n) == IF n[1] >= NoonHour THEN FALSE ELSE flag

\* line 211
RampDuration(cfg) == cfg.RAMP_DURATION_MINUTES * 60

\* Mutant of NextBulb: an error of a ramp ends the for loop.
NextBulbStopsOnError(idx, outcome) ==
    IF outcome = "raised" THEN NumBulbs + 1 ELSE idx + 1

\* lines 212-217: the for loop goes to the next bulb whether the ramp returned
\* or raised (the except clause only prints).
NextBulb(idx, outcome) == idx + 1

\* What a fetch can answer while the loop runs.
MainResponses ==
    { [kind |-> "raise", utc |-> None],
      [kind |-> "ok", utc |-> <<8, 20, 0>>] }

NoResponse == [kind |-> "none", utc |-> None]

Bump(f, d) == [f EXCEPT ![d] = Min(@ + 1, 2)]

\* The part of an iteration before the trigger is decided (lines 185-207):
\* the values the iteration computes from a fetch answer.
IterNow == get_current_time(rtc, config)
IterFetching == Fetching(config, sunrise_time, IterNow, last_hour)
IterSunrise(resp) == IF IterFetching THEN get_sunrise_time(resp, config) ELSE sunrise_time
IterFlag == IF IterFetching THEN FALSE ELSE ramp_triggered_today
IterStart(resp) ==
    IF IsStatic(config) THEN StaticRampStart(config)
    ELSE SunriseRampStart(IterSunrise(resp), config)
IterDay == LocalDay(rtc, config)
IterHist ==
    [hist EXCEPT !.poll_day = IterDay,
                 !.start_day = IF hist.start_day < 0 THEN IterDay ELSE @,
                 !.invoked = <<>>,
                 !.raised = {},
                 !.fetches = IF IterFetching /\ sunrise_time # None
                             THEN Bump(@, IterDay) ELSE @]

\* The next poll after the ramps of a firing ended is still on the firing day.
PolledAgainThatDay(end, day) ==
    end >= 0 /\ LocalDay(end + PollSecs, config) = day

\* An iteration in which the trigger does not fire: lines 185-207 and 219-229.
PollIdle ==
    /\ pc = "poll"
    /\ IterDay < MaxDays
    /\ \E resp \in IF IterFetching THEN MainResponses ELSE {NoResponse} :
         /\ ~Trigger(IterFlag, IterNow, IterStart(resp))
         /\ now' = IterNow
         /\ sunrise_time' = IterSunrise(resp)
         /\ ramp_start_secs' = IterStart(resp)
         /\ last_hour' = IterNow[1]
         /\ ramp_triggered_today' = NoonReset(IterFlag, IterNow)
    /\ hist' = [IterHist EXCEPT !.poll_fired = FALSE]
    /\ rtc' = rtc + PollSecs
    /\ UNCHANGED <<pc, bulb_idx, config, ramp, bulb, clock, obs, fetch, pure>>

\* An iteration in which the trigger fires: lines 185-211, up to the for loop.
PollFire ==
    /\ pc = "poll"
    /\ IterDay < MaxDays
    /\ \E resp \in IF IterFetching THEN MainResponses ELSE {NoResponse} :
         /\ Trigger(IterFlag, IterNow, IterStart(resp))
         /\ now' = IterNow
         /\ sunrise_time' = IterSunrise(resp)
         /\ ramp_start_secs' = IterStart(resp)
         /\ last_hour' = IterNow[1]
    /\ ramp_triggered_today' = TRUE
    /\ bulb_idx' = 1
    /\ pc' = "ramps"
    /\ hist' = [IterHist EXCEPT !.poll_fired = TRUE,
                                !.fires = Bump(@, IterDay),
                                !.after_earlier_day =
                                    /\ hist.last_fire_day >= 0
                                    /\ hist.last_fire_day < IterDay
                                    /\ PolledAgainThatDay(hist.fire_end,
                                                          hist.last_fire_day),
                                !.last_fire_day = IterDay]
    /\ UNCHANGED <<rtc, config, ramp, bulb, clock, obs, fetch, pure>>

\* How long one call of run_sunrise_ramp keeps the loop: a ramp that returns
\* has run its duration_seconds ticks of one second; a ramp that raises does
\* so at its first connect or update (no time) or at its final update.
RampElapsed(outcome, duration) ==
    IF outcome = "returned" THEN {duration} ELSE {0, duration}

\* lines 212-217: one pass of "for name, bulb in bulbs".
RunRamp ==
    /\ pc = "ramps"
    /\ bulb_idx <= NumBulbs
    /\ \E outcome \in {"returned", "raised"} :
         /\ \E e \in RampElapsed(outcome, RampDuration(config)) : rtc' = rtc + e
         /\ bulb_idx' = NextBulb(bulb_idx, outcome)
         /\ hist' = [hist EXCEPT !.invoked = Append(@, bulb_idx),
                                 !.raised = IF outcome = "raised"
                                            THEN @ \cup {bulb_idx} ELSE @]
    /\ UNCHANGED <<pc, now, sunrise_time, ramp_triggered_today, last_hour,
                   ramp_start_secs, config, ramp, bulb, clock, obs, fetch, pure>>

\* lines 219-229 of an iteration that fired: the reset after noon, the sleep.
EndIteration ==
    /\ pc = "ramps"
    /\ bulb_idx > NumBulbs
    /\ ramp_triggered_today' = NoonReset(ramp_triggered_today, now)
    /\ hist' = [hist EXCEPT !.fire_end = rtc]
    /\ rtc' = rtc + PollSecs
    /\ pc' = "poll"
    /\ UNCHANGED <<now, sunrise_time, last_hour, ramp_start_secs, bulb_idx,
                   config, ramp, bulb, clock, obs, fetch, pure>>

StaticConfig(h, m, d) ==
    [MODE |-> "static", STATIC_START_HOUR |-> h, STATIC_START_MINUTE |-> m,
     RAMP_DURATION_MINUTES |-> d, TIMEZONE_OFFSET |-> -5,
     SUNRISE_OFFSET_MINUTES |-> -30]

SunriseConfig(off, d) ==
    [MODE |-> "sunrise", STATIC_START_HOUR |-> 7, STATIC_START_MINUTE |-> 30,
     RAMP_DURATION_MINUTES |-> d, TIMEZONE_OFFSET |-> -5,
     SUNRISE_OFFSET_MINUTES |-> off]

MainConfigs ==
    { StaticConfig(0, 0, 0), StaticConfig(7, 30, 30), StaticConfig(11, 59, 750),
      StaticConfig(12, 0, 0), StaticConfig(23, 59, 30),
      SunriseConfig(-30, 30), SunriseConfig(-30, 0), SunriseConfig(30, 30) }

Days == 0 .. MaxDays

HistInit ==
    [fires |-> [d \in Days |-> 0], fetches |-> [d \in Days |-> 0],
     poll_day |-> -1, start_day |-> -1, poll_fired |-> FALSE,
     last_fire_day |-> -1, fire_end |-> -1,
     after_earlier_day |-> FALSE, invoked |-> <<>>, raised |-> {}]

RampIdle == [pos |-> "idle"]
BulbIdle == [sock |-> "None", seq_num |-> 0, opened |-> 0]
ObsIdle == [frames |-> <<>>, overlap |-> FALSE]
FetchIdle == [pos |-> "idle"]
PureIdle == [fn |-> "idle"]

\* The RTC when the loop starts: local midnight of day 0 and, in sunrise
\* mode, also three seconds before the refetch minute.
StartTimes(cfg) ==
    {5 * 3600} \cup (IF IsStatic(cfg) THEN {} ELSE {7 * 3600 + 59 * 60 + 57})

\* main() up to the loop: lines 180-182.
Init ==
    /\ config \in MainConfigs
    /\ pc = "poll"
    /\ rtc \in StartTimes(config)
    /\ now = <<0, 0, 0>>
    /\ sunrise_time = None
    /\ ramp_triggered_today = FALSE
    /\ last_hour = -1
    /\ ramp_start_secs = 0
    /\ bulb_idx = 1
    /\ hist = HistInit
    /\ ramp = RampIdle /\ bulb = BulbIdle /\ clock = 0 /\ obs = ObsIdle
    /\ fetch = FetchIdle
    /\ pure = PureIdle

Next == PollIdle \/ PollFire \/ RunRamp \/ EndIteration

Spec == Init /\ [][Next]_vars

(***************************************************************************)
(* Claims about the scheduling loop (specification Spec).                  *)
(***************************************************************************)
AllBulbs == [k \in 1 .. NumBulbs |-> k]

\* C1: the ramps are triggered at most once per calendar day: no local day
\* sees a second firing of the trigger.
C1_OncePerDay == \A d \in Days : hist.fires[d] <= 1

\* C4: when the trigger fires, run_sunrise_ramp is invoked exactly once for
\* every configured bulb, in configuration order, whatever an earlier ramp
\* raised, and the loop then goes on to its next poll.
C4_EveryBulbInOrder ==
    /\ pc = "ramps" =>
         /\ bulb_idx <= NumBulbs + 1
         /\ hist.invoked = [k \in 1 .. bulb_idx - 1 |-> k]
    /\ (pc = "poll" /\ hist.poll_fired) => hist.invoked = AllBulbs

\* C4 witness: the ramp of the first bulb raised, every bulb was invoked and
\* the loop is back at its poll.
C4_Witness ==
    /\ pc = "poll" /\ hist.poll_fired
    /\ 1 \in hist.raised
    /\ hist.invoked = AllBulbs

\* A poll that did not fire, on a day after the day of the latest firing.
IdleOnLaterDay ==
    /\ pc = "poll" /\ hist.poll_day >= 0 /\ ~hist.poll_fired
    /\ hist.last_fire_day >= 0 /\ hist.last_fire_day < hist.poll_day

NowSecs == time_to_seconds(now[1], now[2], now[3])

C9_RefetchOncePerDay ==
    ~IsStatic(config) =>
        \A d \in Days :
            /\ hist.fetches[d] <= 1
            /\ (hist.start_day >= 0 /\ hist.start_day < d
                /\ d < LocalDay(rtc, config)) => hist.fetches[d] = 1

(***************************************************************************)
(* RampSpec: run_sunrise_ramp on one bulb.                                 *)
(***************************************************************************)
RampInit ==
    /\ config = StaticConfig(7, 30, 30)
    /\ pc = "off"
    /\ rtc = 0
    /\ now = <<0, 0, 0>>
    /\ sunrise_time = None
    /\ ramp_triggered_today = FALSE
    /\ last_hour = -1
    /\ ramp_start_secs = 0
    /\ bulb_idx = 1
    /\ hist = HistInit
    /\ \E impl \in Impls, d \in 0 .. MaxTicks : ramp = RampStart(impl, d, 1)
    /\ bulb = BulbIdle
    /\ clock = 0
    /\ obs = ObsStart(ObsIdle)
    /\ fetch = FetchIdle
    /\ pure = PureIdle

RampNext ==
    \/ Connect \/ PyConnectBulb \/ Send \/ Recv \/ PySetBulbWhite
    \/ Reconnect \/ Pace \/ Close \/ NextRamp

RampSpec == RampInit /\ [][RampNext]_vars

(***************************************************************************)
(* Claims about the ramp (specification RampSpec).                         *)
(***************************************************************************)
Ended == ramp.pos \in {"returned", "raised"}

\* C2 (as stated): a transport failure of any connect or set_white_mode call
\* of a ramp never propagates out of run_sunrise_ramp.
C2_Original == ramp.pos # "raised"

\* C2 (amended): a transport failure of the update of a tick, or of the
\* reconnect that follows it, never propagates out of run_sunrise_ramp: the
\* function is left by an error only at its initial connect, its initial
\* update or its final update, and a ramp whose initial update returned
\* always reaches its final update, with every tick's update made.
C2_TickFailuresRecovered ==
    /\ ramp.pos = "raised" => ramp.site \in {"init", "final"}
    /\ (Ended /\ ramp.site = "final") => Len(obs.calls) = ramp.duration + 2
    /\ (Ended /\ obs.failed) => ramp.site = "final"

\* C2 witness: a ramp returned although the update of one of its ticks
\* raised and the reconnect after it raised too.
C2_Witness ==
    /\ ramp.pos = "returned" /\ ramp.impl = "esp32"
    /\ obs.failed /\ obs.reconnect_failed

\* The k-th call of set_white_mode a ramp of duration d is to make.
ExpectedCall(k, d) ==
    LET pct == IF k = 1 THEN <<0, 1>>
               ELSE IF k = d + 2 THEN <<100, 1>>
               ELSE <<100 * (k - 2), d>>
        site == IF k = 1 THEN "init" ELSE IF k = d + 2 THEN "final" ELSE "tick"
    IN [site |-> site, pct |-> pct]

\* C3: a ramp of duration D that runs to its end issues exactly D + 2
\* set_white_mode calls: the 0% values, then one per tick i = 0..D-1 at
\* percent i/D*100 (below 100), then the 100% values; a tick whose send
\* fails is counted once and never re-sent.
C3_CallSequence ==
    /\ Len(obs.calls) <= ramp.duration + 2
    /\ \A k \in 1 .. Len(obs.calls) :
         LET c == obs.calls[k]
             e == ExpectedCall(k, ramp.duration)
             v == interpolate_curve(SUNRISE_CURVE, e.pct[1], e.pct[2])
         IN /\ c.site = e.site
            /\ c.pct = e.pct
            /\ c.site = "tick" => c.pct[1] < 100 * c.pct[2]
            /\ <<c.brightness, c.color_temp>> = v
    /\ (ramp.pos = "returned" \/ ramp.pos = "close" \/ (Ended /\ ramp.site = "final"))
         => Len(obs.calls) = ramp.duration + 2

\* C3 witness: a ramp of the longest duration returned after a tick's send
\* had failed.
C3_Witness ==
    /\ ramp.pos = "returned" /\ ramp.duration = MaxTicks
    /\ obs.failed
    /\ Len(obs.calls) = MaxTicks + 2

\* C5: the sequence numbers written into the frames of a bulb strictly
\* increase over connects, closes, failed sends and reconnects, and a
\* command is sent only when no earlier command awaits its response.
C5_SequenceIncreases ==
    /\ \A j, k \in 1 .. Len(obs.frames) :
         j < k => obs.frames[j].seq < obs.frames[k].seq
    /\ obs.outstanding <= 1
    /\ ~obs.overlap

\* C5 witness: in a second ramp on the same bulb, after a failed tick and a
\* reconnect, a command awaits its response.
C5_Witness ==
    /\ ramp.n = 2 /\ obs.failed /\ ramp.site = "tick"
    /\ obs.outstanding = 1
    /\ Len(obs.frames) >= 4

\* C7: the loop leaves tick i at max(start + i + 1, t_i), t_i being the time
\* the tick's work ended: no boundary is passed early, a tick done before its
\* boundary leaves exactly at it however late earlier ticks were, and with
\* zero-cost ticks the loop of a ramp of duration D takes exactly D seconds.
C7_Pacing ==
    /\ obs.left # None =>
         /\ obs.left.at = Max(ramp.start + obs.left.i + 1, obs.left.done)
         /\ (ramp.site = "tick" /\ ramp.pos = "send" /\ ramp.i = obs.left.i + 1)
              => clock = obs.left.at
    /\ (obs.loop_end >= 0 /\ obs.loop_cost = 0) =>
         obs.loop_end = ramp.start + ramp.duration

\* C7 witness: a tick that was done before its boundary left exactly at the
\* boundary after an earlier tick had overrun its own.
C7_Witness ==
    /\ obs.left # None
    /\ obs.left.i = 2
    /\ obs.loop_cost > 0
    /\ obs.left.done < ramp.start + 3
    /\ obs.left.at = ramp.start + 3
    /\ obs.late


InTickOfEsp32(pos) == ramp.impl = "esp32" /\ ramp.site = "tick" /\ ramp.pos = pos

\* C11: a tick whose set_white_mode returns False (a protocol-level failure)
\* is handled as a tick whose send raised: one reconnect attempt is made
\* before the loop goes on.
C11_ProtocolFailureReconnects ==
    (InTickOfEsp32("pace") /\ obs.tick.result \in {"false", "raise"}) =>
        obs.tick.connects = 1

\* C20: in every tick of run_sunrise_ramp (esp32) exactly one set_white_mode
\* attempt is made; bulb.connect() is attempted exactly once if that attempt
\* raised and not at all otherwise; a failed reconnect is swallowed and the
\* loop goes on to the pacing sleep and the next tick without re-sending.
C20_OneAttemptPerTick ==
    /\ (ramp.impl = "esp32" /\ ramp.site = "tick") => ramp.pos # "raised"
    /\ InTickOfEsp32("send") =>
         obs.tick = TickStart /\ Len(obs.calls) = ramp.i + 1
    /\ InTickOfEsp32("reconnect") =>
         obs.tick = [sends |-> 1, connects |-> 0, result |-> "raise"]
    /\ InTickOfEsp32("pace") =>
         /\ obs.tick.sends = 1
         /\ obs.tick.connects = (IF obs.tick.result = "raise" THEN 1 ELSE 0)
         /\ Len(obs.calls) = ramp.i + 2

\* C20 witness: a tick whose update raised and whose reconnect raised too is
\* at its pacing sleep, and it is not the first tick of which this is true.
C20_Witness ==
    /\ InTickOfEsp32("pace")
    /\ ramp.i >= 1
    /\ obs.tick = [sends |-> 1, connects |-> 1, result |-> "raise"]
    /\ bulb.sock = "unconnected"

\* C21: whenever run_sunrise_ramp (esp32) has ended, by returning or by an
\* error escaping it, the bulb's connection is closed (bulb.sock is None, no
\* socket of the bulb is open), and at no time does the bulb hold more than
\* one open socket.
C21_ClosedWhenEnded ==
    /\ bulb.opened <= 1
    /\ (ramp.impl = "esp32" /\ Ended) => (bulb.sock = "None" /\ bulb.opened = 0)

(***************************************************************************)
(* FetchSpec: one call of get_sunrise_time (of either program) on every    *)
(* kind of answer, and the ramp start main() computes from the result.     *)
(***************************************************************************)
FetchResponses ==
    { [kind |-> k, utc |-> None] : k \in {"raise", "bad_parse", "not_ok"} }
    \cup { [kind |-> "ok", utc |-> <<h, m, sec>>] :
             h \in 0 .. 23, m \in {0, 59}, sec \in {0, 59} }

FetchConfigs ==
    { [SunriseConfig(off, 30) EXCEPT !.TIMEZONE_OFFSET = tz] :
        off \in {-30, 0, 30}, tz \in {-5, 0, 2} }

FetchInit ==
    /\ config \in FetchConfigs
    /\ pc = "off"
    /\ rtc = 0
    /\ now = <<0, 0, 0>>
    /\ sunrise_time = None
    /\ ramp_triggered_today = FALSE
    /\ last_hour = -1
    /\ ramp_start_secs = 0
    /\ bulb_idx = 1
    /\ hist = HistInit
    /\ ramp = RampIdle /\ bulb = BulbIdle /\ clock = 0 /\ obs = ObsIdle
    /\ \E r \in FetchResponses :
         fetch = [pos |-> "call", resp |-> r, result |-> None]
    /\ pure = PureIdle

\* esp32/main.py line 196: sunrise_time = get_sunrise_time()
GetSunriseTime ==
    /\ fetch.pos = "call"
    /\ sunrise_time' = get_sunrise_time(fetch.resp, config)
    /\ fetch' = [fetch EXCEPT !.pos = "esp32_done", !.result = sunrise_time']
    /\ UNCHANGED <<config, pc, rtc, now, ramp_triggered_today, last_hour,
                   ramp_start_secs, bulb_idx, hist, rampVars, pure>>

\* esp32/main.py lines 199-202: the ramp start from the cached sunrise time.
ComputeRampStart ==
    /\ fetch.pos = "esp32_done"
    /\ ramp_start_secs' = SunriseRampStart(sunrise_time, config)
    /\ fetch' = [fetch EXCEPT !.pos = "start_done"]
    /\ UNCHANGED <<config, pc, rtc, now, sunrise_time, ramp_triggered_today,
                   last_hour, bulb_idx, hist, rampVars, pure>>

\* sunrise.py line 178: sunrise = get_sunrise_time(lat, lon)
PyGetSunriseTime ==
    /\ fetch.pos = "call"
    /\ fetch' = [fetch EXCEPT !.pos = "py_done",
                              !.result = py_get_sunrise_time(fetch.resp, config)]
    /\ UNCHANGED <<config, mainVars, rampVars, pure>>

FetchNext == GetSunriseTime \/ ComputeRampStart \/ PyGetSunriseTime

FetchSpec == FetchInit /\ [][FetchNext]_vars

\* C8: in sunrise mode the computed ramp start is always within [0, 86400),
\* for every sunrise time of day and every signed offset.
C8_StartWrapped ==
    fetch.pos = "start_done" =>
        (0 <= ramp_start_secs /\ ramp_start_secs < DaySecs)

\* C10: get_sunrise_time always yields a usable time, in both programs: when
\* the fetch fails (a raise, a malformed answer, a status other than OK) the
\* result is the fallback 07:00:00, never an absent value.
C10_AlwaysUsable ==
    fetch.pos \in {"esp32_done", "py_done"} =>
        /\ fetch.result # None
        /\ fetch.resp.kind # "ok" => fetch.result = Fallback

(***************************************************************************)
(* The codec of esp32/tuya.py.  Byte strings are sequences over 0..255.    *)
(* A 32-bit word is the pair <<hi, lo>> of its 16-bit halves.              *)
(***************************************************************************)
\* Mutant of _pad: nothing is appended to a whole number of blocks.
PadToBoundary(data) ==
    LET pad_len == (16 - (Len(data) % 16)) % 16
    IN data \o [i \in 1 .. pad_len |-> pad_len]

\* _pad: pad_len = 16 - (len(data) % 16); data + bytes([pad_len] * pad_len)
_pad(data) ==
    LET pad_len == 16 - (Len(data) % 16)
    IN data \o [i \in 1 .. pad_len |-> pad_len]

\* struct.unpack('>I', b)[0] of the four bytes b[off .. off+3] (0-based off).
UnpackBE32(b, off) ==
    <<b[off + 1] * 256 + b[off + 2], b[off + 3] * 256 + b[off + 4]>>

\* Mutant of ParseResponse: the return code is read at offset 12.
ParseResponseAt12(response) ==
    IF Len(response) >= 20 THEN UnpackBE32(response, 12) = <<0, 0>> ELSE FALSE

\* _send_command lines 87-90, on the bytes recv(1024) returned.
ParseResponse(response) ==
    IF Len(response) >= 20 THEN UnpackBE32(response, 16) = <<0, 0>> ELSE FALSE

\* a ^ b on naturals.
RECURSIVE BitXor(_, _)
BitXor(a, b) ==
    IF a = 0 THEN b
    ELSE IF b = 0 THEN a
    ELSE (((a % 2) + (b % 2)) % 2) + 2 * BitXor(a \div 2, b \div 2)

\* x ^ y on 32-bit words.
Xor32(x, y) == <<BitXor(x[1], y[1]), BitXor(x[2], y[2])>>

\* x >> 1 on a 32-bit word.
Shr1(x) == <<x[1] \div 2, (x[2] \div 2) + ((x[1] % 2) * 32768)>>

\* 0xedb88320 and 0xffffffff
CrcPoly == <<60856, 33568>>
AllOnes == <<65535, 65535>>

\* _crc32 lines 20-23: one turn of the inner loop.
CrcBit(crc) ==
    IF crc[2] % 2 = 1 THEN Xor32(Shr1(crc), CrcPoly) ELSE Shr1(crc)

\* lines 19-23: for _ in range(n)
RECURSIVE CrcBits(_, _)
CrcBits(crc, n) == IF n = 0 THEN crc ELSE CrcBits(CrcBit(crc), n - 1)

\* lines 17-23: the bytes data[i ..] are folded into crc, in order.
RECURSIVE CrcBytes(_, _, _)
CrcBytes(crc, data, i) ==
    IF i > Len(data) THEN crc
    ELSE CrcBytes(CrcBits(Xor32(crc, <<0, data[i]>>), 8), data, i + 1)

\* Mutant of _crc32: the final XOR is left out.
Crc32NoFinalXor(data) == CrcBytes(AllOnes, data, 1)

\* _crc32
_crc32(data) == Xor32(CrcBytes(AllOnes, data, 1), AllOnes)

(***************************************************************************)
(* PureSpec: one call of a function that reads nothing but its arguments.  *)
(* pure.fn names the function, pure.done says whether it has returned.     *)
(***************************************************************************)
MaxOver == 2        \* how far the clamp's inputs go past each bound
MaxRespLen == 22    \* longest response read
MaxDataLen == 33    \* longest input of _pad

\* Integers around both bounds of both ranges, and one in the middle.
ClampInputs ==
    ((0 - MaxOver) .. (10 + MaxOver)) \cup ((1000 - MaxOver) .. (1000 + MaxOver))
        \cup {500}

SetWhiteModeCalls ==
    [fn : {"set_white_mode"}, brightness : ClampInputs, color_temp : ClampInputs,
     result : {None}, done : {FALSE}]

\* A response of n bytes, all zero but byte k (1-based; none if k = 0).
ResponseOf(n, k, v) == [i \in 1 .. n |-> IF i = k THEN v ELSE 0]

Responses ==
    {ResponseOf(n, k, v) : n \in 0 .. MaxRespLen, k \in 0 .. MaxRespLen, v \in {1, 255}}

SendCommandCalls ==
    [fn : {"_send_command"}, response : Responses, result : {None}, done : {FALSE}]

\* Data of n bytes, each telling its place.
DataOf(n, first) == [i \in 1 .. n |-> (first + i) % 256]

PadCalls ==
    [fn : {"_pad"}, data : {DataOf(n, f) : n \in 0 .. MaxDataLen, f \in {0, 15, 250}},
     result : {None}, done : {FALSE}]

MaxKeys == 4        \* most keyframes of a curve
MaxOut == 5         \* how far the percents asked for go past 0 and 100

\* Keyframes: a percent and a (brightness, color_temp) within the ranges.
KeyPoints ==
    {<<p, v[1], v[2]>> : p \in {0, 50, 100},
                         v \in {<<10, 0>>, <<400, 650>>, <<1000, 300>>}}

\* Valid curves: percents non-decreasing, the first 0 and the last 100.
CurvesOfLen(n) ==
    {c \in [1 .. n -> KeyPoints] :
        /\ c[1][1] = 0 /\ c[n][1] = 100
        /\ \A i \in 1 .. (n - 1) : c[i][1] <= c[i + 1][1]}

Curves == UNION {CurvesOfLen(n) : n \in 2 .. MaxKeys} \cup {SUNRISE_CURVE}

InterpolateCalls ==
    [fn : {"interpolate_curve"}, curve : Curves,
     percent : (0 - MaxOut) .. (100 + MaxOut), result : {None}, done : {FALSE}]

MaxCrcLen == 2      \* longest input of _crc32 besides the test vector

\* The ASCII bytes "123456789".
CheckInput == <<49, 50, 51, 52, 53, 54, 55, 56, 57>>

CrcInputs ==
    UNION {[1 .. n -> {0, 1, 128, 255}] : n \in 0 .. MaxCrcLen} \cup {CheckInput}

Crc32Calls == [fn : {"_crc32"}, data : CrcInputs, result : {None}, done : {FALSE}]

PureInit ==
    /\ config = StaticConfig(7, 30, 30)
    /\ pc = "off"
    /\ rtc = 0
    /\ now = <<0, 0, 0>>
    /\ sunrise_time = None
    /\ ramp_triggered_today = FALSE
    /\ last_hour = -1
    /\ ramp_start_secs = 0
    /\ bulb_idx = 1
    /\ hist = HistInit
    /\ ramp = RampIdle /\ bulb = BulbIdle /\ clock = 0 /\ obs = ObsIdle
    /\ fetch = FetchIdle
    /\ \/ pure \in SetWhiteModeCalls
       \/ pure \in SendCommandCalls
       \/ pure \in PadCalls
       \/ pure \in InterpolateCalls
       \/ pure \in Crc32Calls

Return(v) ==
    /\ pure' = [pure EXCEPT !.result = v, !.done = TRUE]
    /\ UNCHANGED <<config, mainVars, rampVars, fetch>>

\* tuya.py lines 102-103 (sunrise.py 107-108): the clamp of set_white_mode.
SetWhiteMode ==
    /\ pure.fn = "set_white_mode" /\ ~pure.done
    /\ Return(WhiteDps(pure.brightness, pure.color_temp))

\* tuya.py lines 84-90: the response is read and judged.
SendCommandResult ==
    /\ pure.fn = "_send_command" /\ ~pure.done
    /\ Return(ParseResponse(pure.response))

\* tuya.py line 64: padded = _pad(payload)
Pad ==
    /\ pure.fn = "_pad" /\ ~pure.done
    /\ Return(_pad(pure.data))

\* main.py lines 84-104 (sunrise.py 74-97), for a whole percent.
InterpolateCurve ==
    /\ pure.fn = "interpolate_curve" /\ ~pure.done
    /\ Return(interpolate_curve(pure.curve, pure.percent, 1))

\* tuya.py line 80: crc = _crc32(packet_data)
Crc32 ==
    /\ pure.fn = "_crc32" /\ ~pure.done
    /\ Return(_crc32(pure.data))

PureNext ==
    SetWhiteMode \/ SendCommandResult \/ Pad \/ InterpolateCurve \/ Crc32

PureSpec == PureInit /\ [][PureNext]_vars

Returned(fn) == pure.fn = fn /\ pure.done

\* C12: for every integer brightness and color_temp given to set_white_mode,
\* the data points sent have '22' in [10,1000] and '23' in [0,1000]: a value
\* in range is sent unchanged, one below as the lower bound, one above as the
\* upper bound.
C12_ClampLaw ==
    Returned("set_white_mode") =>
        LET Sent(v, lo, hi) == IF v < lo THEN lo ELSE IF v > hi THEN hi ELSE v
        IN /\ pure.result.b22 \in 10 .. 1000
           /\ pure.result.b23 \in 0 .. 1000
           /\ pure.result.b22 = Sent(pure.brightness, 10, 1000)
           /\ pure.result.b23 = Sent(pure.color_temp, 0, 1000)

\* C12 witness: a brightness below its range and a color_temp above its
\* range have been clamped to the bounds.
C12_Witness ==
    /\ Returned("set_white_mode")
    /\ pure.brightness < 10 /\ pure.color_temp > 1000
    /\ pure.result = [b22 |-> 10, b23 |-> 1000]

\* C13: _send_command returns success if and only if the response is at
\* least 20 bytes long and the four bytes at offsets 16..19 (the big-endian
\* 32-bit return code) are all zero; otherwise, an empty response included,
\* it returns failure (a boolean, not an error).
C13_SuccessIffZeroRetcode ==
    Returned("_send_command") =>
        /\ pure.result \in BOOLEAN
        /\ pure.result <=>
             /\ Len(pure.response) >= 20
             /\ \A i \in 17 .. 20 : pure.response[i] = 0

\* C13 witness: a response of 20 bytes or more whose only non-zero byte is
\* the most significant byte of the return code has been judged a failure.
C13_Witness ==
    /\ Returned("_send_command")
    /\ Len(pure.response) >= 20
    /\ pure.response[17] = 255
    /\ pure.result = FALSE

\* C18: for an input of n >= 0 bytes _pad appends exactly k = 16 - (n mod 16)
\* bytes, each of value k, with k in 1..16: the padded length is a positive
\* multiple of 16 and the input is an unchanged prefix.
C18_PadLaw ==
    Returned("_pad") =>
        LET n == Len(pure.data)
            k == Len(pure.result) - n
        IN /\ k = 16 - (n % 16)
           /\ k \in 1 .. 16
           /\ Len(pure.result) > 0 /\ Len(pure.result) % 16 = 0
           /\ SubSeq(pure.result, 1, n) = pure.data
           /\ \A i \in (n + 1) .. Len(pure.result) : pure.result[i] = k

\* C18 witness: an input of two whole blocks has got a full block of padding.
C18_Witness ==
    /\ Returned("_pad")
    /\ Len(pure.data) = 32
    /\ Len(pure.result) = 48

KeyValues(point) == <<point[2], point[3]>>

\* C14: interpolate_curve with a percent below the first keyframe's percent
\* returns the first keyframe's values, and with a percent above the last
\* keyframe's percent the last keyframe's values: never an extrapolation.
C14_OutOfRangeClamped ==
    Returned("interpolate_curve") =>
        LET curve == pure.curve
        IN /\ pure.percent < curve[1][1] => pure.result = KeyValues(curve[1])
           /\ pure.percent > curve[Len(curve)][1] =>
                pure.result = KeyValues(curve[Len(curve)])

\* C15: for every valid curve (equal percents allowed) interpolate_curve at
\* percent 0 is the first keyframe's values and at percent 100 the last
\* keyframe's values, exactly.
C15_Endpoints ==
    Returned("interpolate_curve") =>
        LET curve == pure.curve
        IN /\ pure.percent = 0 => pure.result = KeyValues(curve[1])
           /\ pure.percent = 100 => pure.result = KeyValues(curve[Len(curve)])

\* The interior keyframes of the curve at the percent asked for.
InteriorAt(curve, k) ==
    {i \in 1 .. Len(curve) : curve[i][1] = k /\ 0 < k /\ k < 100}

\* C16 as stated: at the percent of an interior keyframe the result is
\* exactly that keyframe's values, for every interior keyframe.
C16_Original ==
    Returned("interpolate_curve") =>
        \A i \in InteriorAt(pure.curve, pure.percent) :
            pure.result = KeyValues(pure.curve[i])

\* C16, amended: at the percent k of an interior keyframe (0 < k < 100) the
\* result is exactly the values of the first keyframe at k, with no
\* truncation error, whether they are above or below the preceding ones.
C16_FirstAtPercentExact ==
    Returned("interpolate_curve") =>
        \A i \in InteriorAt(pure.curve, pure.percent) :
            (\A j \in InteriorAt(pure.curve, pure.percent) : i <= j) =>
                pure.result = KeyValues(pure.curve[i])

\* C16 witness: the percent asked for is that of two interior keyframes with
\* different values, the first below its predecessor in brightness, and the
\* first one's values have been returned.
C16_Witness ==
    /\ Returned("interpolate_curve")
    /\ \E i \in InteriorAt(pure.curve, pure.percent) :
         /\ i + 1 \in InteriorAt(pure.curve, pure.percent)
         /\ i - 1 \notin InteriorAt(pure.curve, pure.percent)
         /\ pure.curve[i][2] < pure.curve[i - 1][2]
         /\ KeyValues(pure.curve[i]) # KeyValues(pure.curve[i + 1])
         /\ pure.result = KeyValues(pure.curve[i])

NonDecreasingBrightness(curve) ==
    \A i \in 1 .. (Len(curve) - 1) : curve[i][2] <= curve[i + 1][2]

\* C17: for a valid curve whose keyframe brightness is non-decreasing, the
\* brightness returned is non-decreasing in the percent over 0..100,
\* truncation included: the brightness at every whole percent p < 100 is at
\* most the brightness at p + 1 (and so at most that at every q >= p).
C17_BrightnessMonotone ==
    ( /\ Returned("interpolate_curve")
      /\ NonDecreasingBrightness(pure.curve)
      /\ pure.percent \in 0 .. 99 ) =>
        pure.result[1] <= interpolate_curve(pure.curve, pure.percent + 1, 1)[1]

\* C17 witness: on a curve of rising brightness, a percent strictly between
\* two keyframes has got a truncated brightness strictly between theirs.
C17_Witness ==
    /\ Returned("interpolate_curve")
    /\ NonDecreasingBrightness(pure.curve)
    /\ pure.curve = <<<<0, 10, 0>>, <<50, 400, 650>>, <<100, 1000, 300>>>>
    /\ pure.percent = 7
    /\ pure.result[1] = 64

(***************************************************************************)
(* The reference CRC-32 (IEEE 802.3), from its parameters: polynomial      *)
(* 0x04C11DB7, register initially all ones, input bytes and the output     *)
(* reflected, the output XORed with all ones.  The register is a sequence  *)
(* of 32 bits, most significant first; bits are fed one at a time.         *)
(***************************************************************************)
\* 0x04C11DB7
Poly04C11DB7 ==
    <<0,0,0,0, 0,1,0,0, 1,1,0,0, 0,0,0,1, 0,0,0,1, 1,1,0,1, 1,0,1,1, 0,1,1,1>>

\* The bits of the message: each byte least significant bit first.
MessageBit(data, n) ==
    LET byte == data[((n - 1) \div 8) + 1]
        j == (n - 1) % 8
    IN (byte \div (2 ^ j)) % 2

ShiftLeft(reg) == Tail(reg) \o <<0>>

XorPoly(reg) == [i \in 1 .. 32 |-> (reg[i] + Poly04C11DB7[i]) % 2]

\* The message bits n .. are fed: the bit shifted out of the register, XORed
\* with the message bit, says whether the polynomial is subtracted.
RECURSIVE RefFeed(_, _, _)
RefFeed(reg, data, n) ==
    IF n > 8 * Len(data) THEN reg
    ELSE IF (reg[1] + MessageBit(data, n)) % 2 = 1
         THEN RefFeed(XorPoly(ShiftLeft(reg)), data, n + 1)
         ELSE RefFeed(ShiftLeft(reg), data, n + 1)

\* The number whose bits, most significant first, are bits[from .. to].
RECURSIVE BitsValue(_, _, _)
BitsValue(bits, from, to) ==
    IF to < from THEN 0 ELSE 2 * BitsValue(bits, from, to - 1) + bits[to]

ReferenceCrc32(data) ==
    LET reg == RefFeed([i \in 1 .. 32 |-> 1], data, 1)
        out == [i \in 1 .. 32 |-> 1 - reg[33 - i]]
    IN <<BitsValue(out, 1, 16), BitsValue(out, 17, 32)>>

\* C19: _crc32 is the IEEE CRC-32: for every byte sequence its result is
\* within 0..2^32-1 (both halves within 0..65535) and equals the reference
\* CRC-32, and for the ASCII bytes 123456789 it is 0xCBF43926.
C19_IsIeeeCrc32 ==
    Returned("_crc32") =>
        /\ pure.result[1] \in 0 .. 65535 /\ pure.result[2] \in 0 .. 65535
        /\ pure.result = ReferenceCrc32(pure.data)
        /\ pure.data = CheckInput => pure.result = <<52212, 14630>>

\* C19 witness: the CRC of the ASCII bytes 123456789 has been computed and is
\* 0xCBF43926.
C19_Witness ==
    /\ Returned("_crc32")
    /\ pure.data = CheckInput
    /\ pure.result = <<52212, 14630>>

====
